---- MODULE Spec2Model ----
(***************************************************************************)
(* A state-machine model of src/tiax.py: the per-guild session (Tiax), its *)
(* periodic heartbeat (HeartbeatAsyncio), the refresh cycle                *)
(* (Tiax.getSummoners), the registry of sessions (Config / c.guilds) and   *)
(* the command handlers that drive them.                                   *)
(*                                                                         *)
(* The program is one asyncio event loop: a coroutine runs without         *)
(* interruption from one await to the next.  Every action below is one     *)
(* such run: it starts where a coroutine is resumed and ends where it is   *)
(* suspended again, returns or raises.                                     *)
(***************************************************************************)
EXTENDS Integers, Sequences, FiniteSets, TLC

(***************************************************************************)
(* Bounds of the model.                                                    *)
(***************************************************************************)
\* Tiax objects constructed during one run of the process.
MaxTiax == 4
\* dict objects that are alive at one time besides the class attribute.
MaxDict == 3
\* Entry slots of a dict's table; a full table is compacted on insertion.
MaxSlots == 3
\* Command handlers in flight at one time.
MaxCmds == 2
\* Distinct payloads the remote service answers with.
MaxPayload == 1
\* Commands issued during one run.
MaxOps == 3
\* Commands issued during a run in which handlers overlap or heartbeats fire.
MaxBurst == 2
\* Changes of the interval during a run in which heartbeats fire.
MaxChanges == 1
\* Rows of a leaderboard table a function is checked with on its own.
MaxRows == 3
\* The largest leaguePoints of an entry a score is computed for.
MaxPoints == 70000
\* Players of a roster sortByTier is checked with on its own.
MaxRoster == 3

(***************************************************************************)
(* Values of the program.                                                  *)
(***************************************************************************)
\* Guild ids (ctx.guild_id as a string).
Guilds == {"g1", "g2"}
\* Summoner names a user passes to add_player / remove_player.
PlayerNames == {"a", "b"}
\* The key save_to_file stores the configuration block under (line 163).
ConfigKey == "config"
\* A slot of a dict's table whose entry was deleted.
Deleted == "<deleted>"
\* Class default of Tiax.update_interval (line 107).
DefaultInterval == 3600
\* The least interval send_updates passes on (line 568).
MinInterval == 900
Intervals == {MinInterval, DefaultInterval}
\* Tiax.updates_channel: None (line 108) or a channel id.
NoChannel == "None"
Channels == {"c1"}
\* A roster entry without a "data" / "info" key: the {} of line 429.
Absent == 0
\* The False that _fetch_riot returns on a non-2xx answer (line 149).
FetchFalse == -1
Payloads == 1..MaxPayload
\* The ways a remote call ends: a 2xx answer with a payload, a non-2xx
\* answer, or an aiohttp error raised by session.get (line 146).
Outcomes == [kind : {"ok"}, p : Payloads]
              \cup {[kind |-> "non2xx", p |-> Absent], [kind |-> "transport", p |-> Absent]}

Min(S) == CHOOSE x \in S : \A y \in S : x <= y
\* The element of a set of one element.
Only(S) == CHOOSE x \in S : TRUE

(***************************************************************************)
(* Python dicts.  A dict is its table of entry slots in insertion order;   *)
(* deleting a key leaves a Deleted slot; iteration walks the slots by      *)
(* position and fails when the number of live entries has changed.         *)
(***************************************************************************)
DeletedSlot == [k |-> Deleted, cfg |-> FALSE, data |-> Absent, info |-> Absent]
\* {} as the value of a roster entry (line 429).
EmptyEntry(k) == [k |-> k, cfg |-> FALSE, data |-> Absent, info |-> Absent]
\* The configuration block as the value of the "config" key (lines 163-168).
ConfigEntry == [k |-> ConfigKey, cfg |-> TRUE, data |-> Absent, info |-> Absent]

Live(d) == {i \in 1..Len(d) : d[i].k # Deleted}
Keys(d) == {d[i].k : i \in Live(d)}
\* len(d), the ma_used the iterator compares with.
Used(d) == Cardinality(Live(d))
SlotOf(d, k) == CHOOSE i \in Live(d) : d[i].k = k
Get(d, k) == d[SlotOf(d, k)]
Compact(d) == SelectSeq(d, LAMBDA e : e.k # Deleted)
\* d[k] = v
Put(d, k, v) ==
    IF k \in Keys(d) THEN [d EXCEPT ![SlotOf(d, k)] = v]
    ELSE IF Len(d) >= MaxSlots THEN Append(Compact(d), v)
    ELSE Append(d, v)
\* d.pop(k), for a key that is present
Pop(d, k) == [d EXCEPT ![SlotOf(d, k)] = DeletedSlot]
\* Whether a roster entry for k still fits the model's table, which always
\* keeps one slot for the "config" key.
PlayerFits(d, k) == k \in Keys(d) \/ Cardinality(Keys(d) \ {ConfigKey}) < MaxSlots - 1


(***************************************************************************)
(* Aggregation and rendering: sortByTier (lines 306-358) and the table of  *)
(* generateLeaderboardEmbed (lines 240-274), as functions of their         *)
(* arguments.  A player is [k, data, info]: k the roster key, data the     *)
(* "data" value ([has, name]) and info the "info" value ([has, list, l]:   *)
(* list is FALSE for a value that is no list, such as False).  A ranking   *)
(* entry is [queueType, tier, rank, leaguePoints]; wins and losses are     *)
(* carried along by the program and left out here.                         *)
(***************************************************************************)
\* queue_types (line 24)
queue_types == <<"RANKED_SOLO_5x5", "RANKED_FLEX_SR", "RANKED_TFT_DOUBLE_UP">>
\* tier and rank (lines 309-311)
tier == <<"UNRANKED", "IRON", "BRONZE", "SILVER", "GOLD", "PLATINUM", "DIAMOND",
          "MASTER", "GRANDMASTER", "CHALLENGER">>
rank == <<"IV", "III", "II", "I">>

\* x in list, and list.index(x) (0-based, defined when x is in the list)
In(list, x) == \E i \in 1..Len(list) : list[i] = x
Index(list, x) == Min({i \in 1..Len(list) : list[i] = x}) - 1

\* The elements of a set of numbers in ascending order.
RECURSIVE Ascending(_)
Ascending(S) == IF S = {} THEN <<>> ELSE <<Min(S)>> \o Ascending(S \ {Min(S)})

\* sub_queues[_type] = {} (line 321): a queue with no entry
NoEntry(q) == [queueType |-> q, tier |-> "", rank |-> "", leaguePoints |-> 0, ranked |-> FALSE]
Entry(q, t, r, lp) == [queueType |-> q, tier |-> t, rank |-> r, leaguePoints |-> lp, ranked |-> TRUE]

\* nameDictByKeyValue(putin, key="queueType") (lines 375-376): a dict keeps a
\* key at the place of its first insertion with the value of its last.
nameDictByKeyValue(putin) ==
    LET first == {i \in 1..Len(putin) :
                     \A j \in 1..(i - 1) : putin[j].queueType # putin[i].queueType}
        last(i) == CHOOSE j \in 1..Len(putin) :
                     /\ putin[j].queueType = putin[i].queueType
                     /\ \A m \in (j + 1)..Len(putin) : putin[m].queueType # putin[i].queueType
        order == Ascending(first)
    IN [n \in 1..Len(order) |-> putin[last(order[n])]]

\* Lines 317-321: the queues of one player, those of the fixed list that
\* have no entry added at the end.
sub_queues(info) ==
    LET named == IF info.has THEN nameDictByKeyValue(info.l) ELSE <<>>
        missing == {i \in 1..Len(queue_types) :
                       \A n \in 1..Len(named) : named[n].queueType # queue_types[i]}
        order == Ascending(missing)
    IN named \o [n \in 1..Len(order) |-> NoEntry(queue_types[order[n]])]

\* A score whose weights of tier and rank are exchanged.
pointsSwapped(e) == Index(tier, e.tier) * 10000 + Index(rank, e.rank) * 100000 + e.leaguePoints

\* Lines 326-328: the score of a ranked entry.
points(e) == Index(tier, e.tier) * 100000 + Index(rank, e.rank) * 10000 + e.leaguePoints

\* Lines 335-340: the text of a row (the parts the string is joined from).
RankText(e) == [tier |-> e.tier, rank |-> e.rank, lp |-> e.leaguePoints]
UnrankedText == [tier |-> "Unranked", rank |-> "", lp |-> 0]

\* Lines 324-356 for one player p and the queues qs still to visit: rows
\* appended to acc, or the exception that ends sortByTier.  In the handler
\* of ValueError, players[player]["info"][queue] subscripts the list with
\* the queue's name, which raises TypeError.
RECURSIVE QueueRows(_, _, _, _)
QueueRows(p, qs, show_unrankeds, acc) ==
    IF qs = <<>> THEN [exc |-> "", rows |-> acc]
    ELSE LET e == Head(qs)
         IN IF e.ranked
            THEN IF ~In(tier, e.tier) \/ ~In(rank, e.rank) THEN [exc |-> "TypeError", rows |-> acc]
                 ELSE IF ~p.data.has THEN [exc |-> "KeyError", rows |-> acc]
                 ELSE QueueRows(p, Tail(qs), show_unrankeds,
                                Append(acc, [name |-> p.data.name, queue |-> e.queueType,
                                             points |-> points(e), text |-> RankText(e)]))
            ELSE IF show_unrankeds
            THEN IF ~p.data.has THEN [exc |-> "KeyError", rows |-> acc]
                 ELSE QueueRows(p, Tail(qs), show_unrankeds,
                                Append(acc, [name |-> p.data.name, queue |-> e.queueType,
                                             points |-> 0, text |-> UnrankedText]))
            ELSE QueueRows(p, Tail(qs), show_unrankeds, acc)

\* Lines 314-356: the loop over the players.  An "info" value that is no
\* list cannot be iterated by nameDictByKeyValue: TypeError.
RECURSIVE playings(_, _, _)
playings(players, show_unrankeds, acc) ==
    IF players = <<>> THEN [exc |-> "", rows |-> acc]
    ELSE LET p == Head(players)
         IN IF p.k = ConfigKey THEN playings(Tail(players), show_unrankeds, acc)
            ELSE IF p.info.has /\ ~p.info.list THEN [exc |-> "TypeError", rows |-> acc]
            ELSE LET r == QueueRows(p, sub_queues(p.info), show_unrankeds, acc)
                 IN IF r.exc # "" THEN r
                    ELSE playings(Tail(players), show_unrankeds, r.rows)

\* A sort that is not stable: a row is placed in front of the rows of its
\* own key.
InsertBeforeEqual(sorted, row) ==
    LET before == {i \in 1..Len(sorted) : sorted[i].points > row.points}
        n == Cardinality(before)
    IN SubSeq(sorted, 1, n) \o <<row>> \o SubSeq(sorted, n + 1, Len(sorted))

\* sorted(playings, key=lambda x: x[2], reverse=True) (line 358): rows are
\* placed one by one, each behind the rows placed so far whose key is not
\* smaller.
Insert(sorted, row) ==
    LET before == {i \in 1..Len(sorted) : sorted[i].points >= row.points}
        n == Cardinality(before)
    IN SubSeq(sorted, 1, n) \o <<row>> \o SubSeq(sorted, n + 1, Len(sorted))

RECURSIVE SortedDesc(_, _)
SortedDesc(rows, acc) ==
    IF rows = <<>> THEN acc ELSE SortedDesc(Tail(rows), Insert(acc, Head(rows)))

\* sortByTier (lines 306-358): [exc, rows].
Sorted(r) ==
    IF r.exc # "" THEN [exc |-> r.exc, rows |-> <<>>]
    ELSE [exc |-> "", rows |-> SortedDesc(r.rows, <<>>)]
sortByTier(players, show_unrankeds) ==
    Only({Sorted(r) : r \in {playings(players, show_unrankeds, <<>>)}})

\* The gamemodes a leaderboard is rendered for, and an empty last_ranks
\* dict: per gamemode whether it is a key, and the table stored under it.
Modes == {queue_types[i] : i \in 1..Len(queue_types)}
NoRanks == [q \in Modes |-> [has |-> FALSE, rows |-> <<>>]]
NoEmbed == [mode |-> "", ranking |-> <<>>]
\* No call made yet.
NoCall == [fn |-> "", args |-> <<>>, exc |-> "", res |-> <<>>]

\* to_table (lines 250-254): the rows of the gamemode in order, each with
\* its spot str(li + 1) in front; int() of a spot gives the number back.
to_table(good_data, gamemode) ==
    LET idx == Ascending({i \in 1..Len(good_data) : good_data[i].queue = gamemode})
    IN [n \in 1..Len(idx) |->
          [spot |-> n, name |-> good_data[idx[n]].name, text |-> good_data[idx[n]].text]]

\* ranking (line 256): what is shown in front of each row: an arrow with an
\* amount, and a number.
Plain(tab) == [n \in 1..Len(tab) |-> [arrow |-> "", by |-> 0, spot |-> tab[n].spot]]

\* Lines 259-268 from the li-th row of the stored table on (li and yi count
\* from 1 here, so li - yi is the program's li - yi, and f"{yi}" is yi - 1).
RECURSIVE Delta(_, _, _, _)
Delta(last, tab, ranking, li) ==
    IF li > Len(last) THEN ranking
    ELSE LET hits == {yi \in 1..Len(tab) : tab[yi].name = last[li].name}
         IN IF hits = {} THEN Delta(last, tab, ranking, li + 1)
            ELSE LET yi == Min(hits)
                     lab == IF tab[yi].spot < last[li].spot
                            THEN [arrow |-> "up", by |-> li - yi, spot |-> yi - 1]
                            ELSE IF tab[yi].spot > last[li].spot
                            THEN [arrow |-> "down", by |-> yi - li, spot |-> yi - 1]
                            ELSE [arrow |-> "", by |-> 0, spot |-> yi - 1]
                 IN Delta(last, tab, [ranking EXCEPT ![yi] = lab], li + 1)

\* generateLeaderboardEmbed (lines 240-274) on the players of a roster:
\* the exception it raises, the embed it returns (that of the first
\* gamemode; None for an empty list) and self.last_ranks afterwards.
\* Lines 248-274 on good_data, the result of sortByTier (line 246).
Embed(good, last, gamemodes, modcall) ==
    LET gamemode == Head(gamemodes)
        tab == to_table(good.rows, gamemode)
        ranking == IF ~modcall /\ last[gamemode].has
                   THEN Delta(last[gamemode].rows, tab, Plain(tab), 1)
                   ELSE Plain(tab)
    IN IF good.exc # "" THEN [exc |-> good.exc, embed |-> NoEmbed, last |-> last]
       ELSE IF gamemodes = <<>> THEN [exc |-> "", embed |-> NoEmbed, last |-> last]
       ELSE [exc |-> "",
             embed |-> [mode |-> gamemode, ranking |-> ranking],
             last |-> [last EXCEPT ![gamemode] = [has |-> TRUE, rows |-> tab]]]
generateLeaderboardEmbed(players, show_unrankeds, last, gamemodes, modcall) ==
    Only({Embed(good, last, gamemodes, modcall) : good \in {sortByTier(players, show_unrankeds)}})

(***************************************************************************)
(* State.                                                                  *)
(***************************************************************************)
VARIABLES
    \* Where the module's top-level code stands: "boot" before line 301,
    \* "loaded" after c = Config() (line 301), "running" once line 303 has
    \* run and _bot.start() (line 685) runs the event loop.
    mainpc,
    \* The number of commands issued so far (an instrument of the model: it
    \* bounds the length of a run).
    ops,
    \* savege.json: the list of guild ids Config.save wrote, or no file.
    savege,
    \* c.guilds, a dict in insertion order: <<[g, v]>> with v the Tiax object
    \* (an index of tiax) or NonSession for any value that is not a Tiax.
    guilds,
    \* The Tiax objects ever constructed, in construction order.
    tiax,
    \* The dict objects summ_data refers to; dicts[0] is the class attribute
    \* Tiax.summ_data (line 99), the others belong to one object each.
    dicts,
    \* <guild>-accounts.json per guild.
    files,
    \* Per Tiax object, the getSummoners call its heartbeat task is in.
    hbf,
    \* The command handlers in flight (and the last outcome of each slot).
    cmds,
    \* Per command slot, the getSummoners call the handler is in.
    cmdf,
    \* The class attribute Tiax.last_ranks (line 102), a dict every object
    \* uses that has not loaded one of its own.
    last_ranks,
    \* The last call of generateLeaderboardEmbed or of a function checked
    \* on its own: what it was called with and what came of it.
    call

vars == <<mainpc, ops, savege, guilds, tiax, dicts, files, hbf, cmds, cmdf, last_ranks, call>>

\* What the handlers that render nothing leave alone.
shown == <<last_ranks, call>>

ctl == <<mainpc, ops>>

NonSession == 0
ClassDict == 0
TiaxIds == 1..Len(tiax)
CmdIds == 1..MaxCmds

(***************************************************************************)
(* Files.                                                                  *)
(***************************************************************************)
\* self.last_ranks of object t: its own dict once load_from_file has
\* assigned one (line 182), the class attribute otherwise.
LastRanks(t) == IF t.own_ranks THEN t.last_ranks ELSE last_ranks

\* The configuration block save_to_file writes (lines 163-168).
ConfOf(t) ==
    [show_unrankeds |-> t.show_unranked_players,
     last_ranks |-> LastRanks(t),
     send_updates |-> t.send_updates,
     update_interval |-> t.update_interval,
     updates_channel |-> t.updates_channel]
\* The class defaults (lines 102-109).
DefaultConf ==
    [show_unrankeds |-> FALSE, last_ranks |-> NoRanks, send_updates |-> FALSE,
     update_interval |-> DefaultInterval, updates_channel |-> NoChannel]
\* A file: kind is "missing", "ok" or "unparsable" (json.loads raises);
\* lacks names the first key load_from_file reads from the configuration
\* block and does not find ("" when it finds them all).
NoFile == [kind |-> "missing", slots |-> <<>>, conf |-> DefaultConf, lacks |-> ""]
\* json.dumps(dump): the live entries in order.
FileOf(d, t) == [kind |-> "ok", slots |-> Compact(d), conf |-> ConfOf(t), lacks |-> ""]

(***************************************************************************)
(* Tiax objects.                                                           *)
(***************************************************************************)
\* The dict objects something still refers to: the class attribute, every
\* object's summ_data, and the dict a running loop iterates.
Referenced(T, HF, CF) ==
    {ClassDict} \cup {T[i].summ : i \in 1..Len(T)}
      \cup {HF[i].it : i \in {j \in 1..Len(HF) : HF[j].st = "run"}}
      \cup {CF[i].it : i \in {j \in CmdIds : CF[j].st = "run"}}
FreeDicts(T, HF, CF) == (1..MaxDict) \ Referenced(T, HF, CF)
\* Unreferenced dicts are garbage: their content is dropped.
Collect(D, T, HF, CF) ==
    [i \in DOMAIN D |-> IF i \in Referenced(T, HF, CF) THEN D[i] ELSE <<>>]

IdleFrame ==
    [st |-> "idle", pc |-> "", exc |-> "", self |-> 0, it |-> ClassDict,
     pos |-> 0, used |-> 0, left |-> 0, name |-> "", p |-> Absent, errs |-> <<>>,
     flag |-> FALSE, hist |-> {}]

\* Tiax.load_from_file (lines 171-186) on a fresh object t of guild g:
\* the object's fields and the dict its summ_data refers to afterwards.
\* With no file, or an empty or unparsable one, summ_data stays the class
\* attribute; otherwise data.pop("config") leaves a deleted slot in the
\* dict json.loads built.
LoadedSlots(f) == [i \in 1..Len(f.slots) |->
                     IF f.slots[i].k = ConfigKey THEN DeletedSlot ELSE f.slots[i]]
\* The keys of the configuration block in the order lines 181-185 read them.
ConfKeys == <<"show_unrankeds", "last_ranks", "send_updates", "updates_channel", "update_interval">>
\* Whether the assignment from key k is reached and made: every key read
\* before it is there, and so is k.
Assigned(f, k) == f.lacks = "" \/ Index(ConfKeys, k) < Index(ConfKeys, f.lacks)

load_from_file(t, f, fresh) ==
    IF f.kind # "ok" \/ f.slots = <<>> THEN t
    ELSE IF ConfigKey \notin Keys(f.slots) THEN [t EXCEPT !.summ = fresh]
    ELSE LET c == f.conf
             t1 == [t EXCEPT
                      !.show_unranked_players =
                          IF Assigned(f, "show_unrankeds") THEN c.show_unrankeds ELSE @,
                      !.own_ranks = IF Assigned(f, "last_ranks") THEN TRUE ELSE @,
                      !.last_ranks = IF Assigned(f, "last_ranks") THEN c.last_ranks ELSE @,
                      !.send_updates = IF Assigned(f, "send_updates") THEN c.send_updates ELSE @,
                      !.updates_channel =
                          IF Assigned(f, "updates_channel") THEN c.updates_channel ELSE @,
                      !.update_interval =
                          IF Assigned(f, "update_interval") THEN c.update_interval ELSE @]
         IN \* line 186 is reached only when no key was missing
            IF f.lacks = "" THEN [t1 EXCEPT !.summ = fresh] ELSE t1

\* Tiax.__init__ (lines 115-123): the fields after load_from_file, and a
\* heartbeat HeartbeatAsyncio(self.getSummoners, self.update_interval)
\* (lines 58-62).  started says whether the event loop has already run the
\* start() that line 123 schedules.
NewTiax(g, f, fresh, started) ==
    LET t0 == [guild |-> g, summ |-> ClassDict, own_ranks |-> FALSE, last_ranks |-> NoRanks,
               send_updates |-> FALSE, update_interval |-> DefaultInterval,
               updates_channel |-> NoChannel, show_unranked_players |-> FALSE,
               is_started |-> FALSE, time |-> DefaultInterval, task |-> "none",
               armed |-> 0, loops |-> 0]
        t1 == load_from_file(t0, f, fresh)
    IN [t1 EXCEPT !.time = t1.update_interval,
                  !.is_started = started,
                  !.task = IF started THEN "sleep" ELSE "none",
                  !.armed = IF started THEN t1.update_interval ELSE 0,
                  !.loops = IF started THEN 1 ELSE 0]

(***************************************************************************)
(* Tiax.getSummoners (lines 188-217).  A call is a frame: st says whether  *)
(* it is suspended ("run"), has returned ("ret"), has raised ("exc") or    *)
(* was cancelled; pc is the await it is suspended at.  The operators below *)
(* take a frame from one await to the next and give the new frame, dict    *)
(* heap and files.  errs is the list of line 194 and flag the first        *)
(* component of the returned tuple; hist records what the remote calls of  *)
(* the cycle answered: per name the profile (FetchFalse for a failed       *)
(* resolution), the rankings, and the rankings cached before.              *)
(***************************************************************************)
Finished(fr, st, exc) ==
    [fr EXCEPT !.st = st, !.exc = exc, !.pc = "", !.it = ClassDict, !.pos = 0,
               !.used = 0, !.left = 0, !.name = "", !.p = Absent,
               !.flag = (st = "ret" /\ Len(fr.errs) < 1)]
Raise(fr, exc, D, F) == [fr |-> Finished(fr, "exc", exc), d |-> D, f |-> F]

\* Tiax.save_to_file (lines 159-169): dump is self.summ_data itself, so the
\* "config" key is stored in the roster dict, and the dict is written out.
save_to_file(t, D, F) ==
    LET d == Put(D[t.summ], ConfigKey, ConfigEntry)
    IN [d |-> [D EXCEPT ![t.summ] = d],
        f |-> [F EXCEPT ![t.guild] = FileOf(d, t)]]

\* for name in errs: self.summ_data.pop(name) (lines 207-208); pop raises
\* KeyError on a name that is not in the dict.
RECURSIVE PopAll(_, _)
PopAll(d, errs) ==
    IF errs = <<>> THEN [ok |-> TRUE, d |-> d]
    ELSE IF Head(errs) \notin Keys(d) THEN [ok |-> FALSE, d |-> d]
    ELSE PopAll(Pop(d, Head(errs)), Tail(errs))

\* Lines 207-217 without the condition of line 210: the leaderboard is sent
\* whatever send_updates and updates_channel are.
PostLoopSendsAlways(fr, T, D, F) ==
    LET t == T[fr.self]
        r == PopAll(D[t.summ], fr.errs)
        D1 == [D EXCEPT ![t.summ] = r.d]
        s == save_to_file(t, D1, F)
    IN IF ~r.ok THEN Raise(fr, "KeyError", D1, F)
       ELSE [fr |-> [fr EXCEPT !.pc = "send"], d |-> s.d, f |-> s.f]

\* Lines 207-217: remove the failed names, persist, and either suspend in
\* channel.send (line 215) or return (len(errs) < 1, errs).
PostLoop(fr, T, D, F) ==
    LET t == T[fr.self]
        r == PopAll(D[t.summ], fr.errs)
        D1 == [D EXCEPT ![t.summ] = r.d]
        s == save_to_file(t, D1, F)
    IN IF ~r.ok THEN Raise(fr, "KeyError", D1, F)
       ELSE IF t.send_updates /\ t.updates_channel # NoChannel
       THEN [fr |-> [fr EXCEPT !.pc = "send"], d |-> s.d, f |-> s.f]
       ELSE [fr |-> Finished(fr, "ret", ""), d |-> s.d, f |-> s.f]

\* The for statement of line 195 asking its iterator for the next key.  The
\* iterator (pos: its place in the table, used: the size of the dict when
\* the loop began, left: the keys it has still to give) raises RuntimeError
\* when the dict's size has changed, walks on from its place to the next
\* live slot, and raises RuntimeError too when it finds a key after it has
\* given as many as the dict had.  With a next key the call suspends in
\* _byName (line 197).
LoopNext(fr, T, D, F) ==
    LET d == D[fr.it]
        later == {i \in Live(d) : i > fr.pos}
    IN IF Used(d) # fr.used THEN Raise(fr, "RuntimeError", D, F)
       ELSE IF later = {} THEN PostLoop(fr, T, D, F)
       ELSE IF fr.left = 0 THEN Raise(fr, "RuntimeError", D, F)
       ELSE [fr |-> [fr EXCEPT !.pos = Min(later), !.left = @ - 1,
                               !.name = d[Min(later)].k, !.pc = "byName"],
             d |-> D, f |-> F]

\* Calling getSummoners on object self: errs = [] and the loop's first step.
getSummoners(self, T, D, F) ==
    LoopNext([IdleFrame EXCEPT !.st = "run", !.self = self, !.it = T[self].summ,
                               !.used = Used(D[T[self].summ]),
                               !.left = Used(D[T[self].summ])], T, D, F)

NoInput == [kind |-> "none", p |-> Absent]
\* What the await a frame is suspended at can be resumed with.
Inputs(fr) == IF fr.pc \in {"byName", "bySummoner"} THEN Outcomes ELSE {NoInput}

\* _fetch_riot (lines 137-150) as seen by its caller: the payload of a 2xx
\* answer, False for any other status; a transport error raises instead.
fetch_riot(o) == IF o.kind = "ok" THEN o.p ELSE FetchFalse

\* Resuming a suspended call with input o.
Resume(fr, o, T, D, F) ==
    LET sd == T[fr.self].summ
        d == D[sd]
        n == fr.name
    IN CASE fr.pc = "byName" ->
              \* lines 197-206
              IF o.kind = "transport" THEN Raise(fr, "ClientError", D, F)
              ELSE IF fetch_riot(o) = FetchFalse
              THEN LoopNext([fr EXCEPT !.errs = Append(@, n),
                                       !.hist = @ \cup {[n |-> n, data |-> FetchFalse,
                                                         info |-> Absent, old |-> Absent]}],
                            T, D, F)
              ELSE IF n \notin Keys(d) THEN Raise(fr, "KeyError", D, F)
              ELSE [fr |-> [fr EXCEPT !.pc = "sleep1", !.p = fetch_riot(o)],
                    d |-> [D EXCEPT ![sd] = Put(d, n, [Get(d, n) EXCEPT !.data = fetch_riot(o)])],
                    f |-> F]
         [] fr.pc = "sleep1" ->
              \* line 202 calls _bySummoner (line 131), which reads
              \* self.summ_data[name]["data"]["id"] before it sends.
              IF n \notin Keys(d) \/ Get(d, n).data = Absent
              THEN Raise(fr, "KeyError", D, F)
              ELSE [fr |-> [fr EXCEPT !.pc = "bySummoner"], d |-> D, f |-> F]
         [] fr.pc = "bySummoner" ->
              \* lines 202-204
              IF o.kind = "transport" THEN Raise(fr, "ClientError", D, F)
              ELSE IF n \notin Keys(d) THEN Raise(fr, "KeyError", D, F)
              ELSE [fr |-> [fr EXCEPT !.pc = "sleep2",
                                      !.hist = @ \cup {[n |-> n, data |-> fr.p,
                                                        info |-> fetch_riot(o),
                                                        old |-> Get(d, n).info]}],
                    d |-> [D EXCEPT ![sd] = Put(d, n, [Get(d, n) EXCEPT !.info = fetch_riot(o)])],
                    f |-> F]
         [] fr.pc = "sleep2" -> LoopNext(fr, T, D, F)
         [] OTHER -> \* "send": line 215 done, line 217 returns
              [fr |-> Finished(fr, "ret", ""), d |-> D, f |-> F]

(***************************************************************************)
(* What the remote service's payloads stand for, and the roster as         *)
(* sortByTier reads it.                                                    *)
(***************************************************************************)
\* data["name"] of the account a resolve call answers with.
DisplayNames == <<"A", "B", "C">>
NameOf(p) == IF p \in 1..Len(DisplayNames) THEN DisplayNames[p] ELSE ""
\* The list of entries a ranking call answers with.
Rankings ==
    << <<>>,
       <<Entry(queue_types[1], "GOLD", "I", 50)>>,
       <<Entry(queue_types[1], "SILVER", "II", 10), Entry(queue_types[2], "GOLD", "IV", 0)>>,
       <<Entry(queue_types[1], "EMERALD", "I", 10), Entry(queue_types[2], "GOLD", "IV", 0)>> >>
RankingOf(p) == IF p \in 1..Len(Rankings) THEN Rankings[p] ELSE <<>>

\* The players of dict d in iteration order.
Players(d) ==
    LET live == Ascending(Live(d))
    IN [n \in 1..Len(live) |->
          LET e == d[live[n]]
          IN [k |-> e.k,
              data |-> [has |-> e.data # Absent, name |-> NameOf(e.data)],
              info |-> [has |-> e.info # Absent, list |-> e.info # FetchFalse,
                        l |-> RankingOf(e.info)]]]

RenderCall(t, gamemodes, modcall, r) ==
    [fn |-> "generateLeaderboardEmbed",
     args |-> [guild |-> t.guild, gamemodes |-> gamemodes, modcall |-> modcall],
     exc |-> r.exc, res |-> r.embed]

\* self.generateLeaderboardEmbed(gamemodes, modcall) on object i of T with
\* dict heap D: the exception, and the objects, the class attribute
\* last_ranks and the call record afterwards.
Rendered(i, T, gamemodes, modcall, r) ==
    [exc |-> r.exc,
     T |-> IF T[i].own_ranks THEN [T EXCEPT ![i].last_ranks = r.last] ELSE T,
     lr |-> IF T[i].own_ranks THEN last_ranks ELSE r.last,
     call |-> RenderCall(T[i], gamemodes, modcall, r)]
Render(i, T, D, gamemodes, modcall) ==
    Only({Rendered(i, T, gamemodes, modcall, r) :
             r \in {generateLeaderboardEmbed(Players(D[T[i].summ]), T[i].show_unranked_players,
                                            LastRanks(T[i]), gamemodes, modcall)}})

\* Line 215: a call that has reached channel.send has evaluated
\* self.generateLeaderboardEmbed() first; if that raises, so does the call.
Delivered(m, r) ==
    [fr |-> IF r.exc # "" THEN Finished(m.fr, "exc", r.exc) ELSE m.fr,
     d |-> m.d, f |-> m.f, T |-> r.T, lr |-> r.lr, call |-> r.call]
Deliver(m, T) ==
    IF m.fr.st = "run" /\ m.fr.pc = "send"
    THEN Only({Delivered(m, r) : r \in {Render(m.fr.self, T, m.d, <<queue_types[1]>>, FALSE)}})
    ELSE [fr |-> m.fr, d |-> m.d, f |-> m.f, T |-> T, lr |-> last_ranks, call |-> call]

(***************************************************************************)
(* The registry: Config (lines 277-297) and c.guilds.                      *)
(***************************************************************************)
RegKeys == {guilds[i].g : i \in 1..Len(guilds)}
RegGet(g) == guilds[CHOOSE i \in 1..Len(guilds) : guilds[i].g = g].v
RegList == [i \in 1..Len(guilds) |-> guilds[i].g]

HasData(f) == f.kind = "ok" /\ f.slots # <<>> /\ f.lacks = ""
RECURSIVE NeedDicts(_)
NeedDicts(gs) ==
    IF gs = <<>> THEN 0
    ELSE (IF HasData(files[Head(gs)]) THEN 1 ELSE 0) + NeedDicts(Tail(gs))
\* Whether the model has room for Tiax(g) for every g of gs.
CanConstruct(gs) ==
    /\ Len(tiax) + Len(gs) <= MaxTiax
    /\ NeedDicts(gs) <= Cardinality(FreeDicts(tiax, hbf, cmdf))

\* {g: Tiax(str(g)) for g in gs} (lines 297 and 303): the objects are
\* constructed in order; each loads its guild's file.
RECURSIVE Construct(_, _, _, _, _)
Construct(gs, T, D, started, reg) ==
    IF gs = <<>> THEN [T |-> T, D |-> D, reg |-> reg]
    ELSE LET g == Head(gs)
             f == files[g]
             fresh == IF HasData(f) THEN Min(FreeDicts(T, hbf, cmdf)) ELSE ClassDict
         IN Construct(Tail(gs),
                      Append(T, NewTiax(g, f, fresh, started)),
                      IF HasData(f) THEN [D EXCEPT ![fresh] = LoadedSlots(f)] ELSE D,
                      started,
                      Append(reg, [g |-> g, v |-> Len(T) + 1]))

IdleFrames(n) == [i \in 1..n |-> IdleFrame]

\* Config.load (lines 292-297).
ConfigLoad(started) ==
    IF savege.kind = "missing"
    THEN /\ guilds' = <<>>
         /\ UNCHANGED <<tiax, dicts, hbf>>
    ELSE /\ CanConstruct(savege.ids)
         /\ LET c == Construct(savege.ids, tiax, dicts, started, <<>>)
            IN /\ guilds' = c.reg
               /\ tiax' = c.T
               /\ dicts' = c.D
               /\ hbf' = hbf \o IdleFrames(Len(savege.ids))

\* c = Config() (line 301).
ConfigInit ==
    /\ mainpc = "boot"
    /\ mainpc' = "loaded"
    /\ ConfigLoad(FALSE)
    /\ UNCHANGED <<ops, savege, files, cmds, cmdf, last_ranks, call>>

\* c.guilds = {str(guild): Tiax(str(guild)) for guild in c.guilds.keys()}
\* (line 303): a second object per guild.
ModuleRebuild ==
    /\ mainpc = "loaded"
    /\ mainpc' = "rebuilt"
    /\ CanConstruct(RegList)
    /\ LET c == Construct(RegList, tiax, dicts, FALSE, <<>>)
       IN /\ guilds' = c.reg
          /\ tiax' = c.T
          /\ dicts' = c.D
          /\ hbf' = hbf \o IdleFrames(Len(guilds))
    /\ UNCHANGED <<ops, savege, files, cmds, cmdf, last_ranks, call>>

(***************************************************************************)
(* HeartbeatAsyncio (lines 43-84).  The task of a heartbeat is "none"      *)
(* before the first start(), "sleep" in line 80, "func" in line 82, and    *)
(* "cancelled" once stop() has cancelled it.  The event loop runs ready    *)
(* callbacks in order, so the task start() creates arms its first sleep    *)
(* before any other coroutine runs: creating it and arming it is one step. *)
(* armed is the argument of the task's last asyncio.sleep(self.time), read *)
(* when the sleep begins, and loops the number of _run tasks that line 68  *)
(* has created and that have not ended.                                    *)
(***************************************************************************)
\* line 80: the loop of _run begins a wait of self.time.
sleep(t) == [t EXCEPT !.task = "sleep", !.armed = t.time]

\* start() (lines 64-68)
start(t) ==
    IF ~t.is_started THEN sleep([t EXCEPT !.is_started = TRUE, !.loops = @ + 1]) ELSE t

\* A cancel() that leaves the task as it is.
cancelNot(task) == task

\* What self._task.cancel() (line 74) makes of the task: CancelledError is
\* thrown into the coroutine at the await it is suspended at; it is not an
\* Exception, so line 83 does not catch it and the task ends.
cancel(task) == "cancelled"

\* stop() (lines 70-76) up to its await of the cancelled task
stop(t) ==
    IF t.is_started
    THEN [t EXCEPT !.is_started = FALSE, !.task = cancel(t.task),
                   !.loops = IF cancel(t.task) = "cancelled" THEN @ - 1 ELSE @]
    ELSE t

\* _run awaits self.func() (line 82) and keeps nothing of its result: of a
\* call that has ended only how it ended is left, and no history of what a
\* running one has fetched is kept.
Discard(fr) ==
    IF fr.st = "run" THEN [fr EXCEPT !.hist = {}]
    ELSE [IdleFrame EXCEPT !.st = fr.st, !.exc = fr.exc]

\* The getSummoners call of a task that is cancelled: it ends where it is.
Cancelled(fr) ==
    IF fr.st = "run" THEN Discard(Finished(fr, "cancelled", "CancelledError")) ELSE fr

\* A _run whose loop an exception of the action ends.
run_afterHalts(st) == IF st = "exc" THEN "dead" ELSE "sleep"

\* _run (lines 78-84) after func has returned or raised: an Exception is
\* logged, and either way the loop goes back to the sleep of line 80.
run_after(st) == "sleep"

\* The event loop starts (_bot.start(), line 685): the start() coroutines
\* that line 123 scheduled run first.
BotStart ==
    /\ mainpc = "rebuilt"
    /\ mainpc' = "running"
    /\ tiax' = [i \in TiaxIds |-> start(tiax[i])]
    /\ UNCHANGED <<ops, savege, guilds, dicts, files, hbf, cmds, cmdf, last_ranks, call>>

HbApply(i, m0) ==
    \E m \in {Deliver(m0, tiax)} :
       \E HF \in {[hbf EXCEPT ![i] = Discard(m.fr)]} :
          /\ hbf' = HF
          /\ tiax' = [m.T EXCEPT ![i] =
                         IF m.fr.st = "run" THEN [m.T[i] EXCEPT !.task = "func"]
                         ELSE IF run_after(m.fr.st) = "sleep" THEN sleep(m.T[i])
                         ELSE [m.T[i] EXCEPT !.task = run_after(m.fr.st), !.loops = @ - 1]]
          /\ dicts' = Collect(m.d, tiax, HF, cmdf)
          /\ files' = m.f
          /\ last_ranks' = m.lr
          /\ call' = m.call
          /\ UNCHANGED <<ctl, savege, guilds, cmds, cmdf>>

\* The sleep of line 80 ends and line 82 calls self.func().
HbFire(i) ==
    /\ mainpc = "running"
    /\ i \in TiaxIds
    /\ tiax[i].task = "sleep"
    /\ \E m \in {getSummoners(i, tiax, dicts, files)} : HbApply(i, m)

\* The call of line 82 is resumed at the await it is suspended at.
HbStep(i) ==
    /\ i \in TiaxIds
    /\ tiax[i].task = "func"
    /\ \E o \in Inputs(hbf[i]) :
          \E m \in {Resume(hbf[i], o, tiax, dicts, files)} : HbApply(i, m)

(***************************************************************************)
(* Command handlers (lines 381-682).  A slot of cmds holds one handler:    *)
(* pc is "sent" while it awaits ctx.defer / ctx.send between its lookup    *)
(* and its work, "cycle" inside getSummoners, "join" inside stop(), and    *)
(* "done" or "failed" (with the exception) once it has ended; an ended     *)
(* slot is reused by the next command.  Awaits of ctx and msg that no      *)
(* statement with an effect on the state follows or precedes are not       *)
(* steps of their own.                                                     *)
(***************************************************************************)
FreeCmd == [kind |-> "", g |-> "", n |-> "", t |-> 0, iv |-> 0, pc |-> "free", exc |-> ""]
Ended(c) == c.pc \in {"free", "done", "failed"}
HasSlot == \E i \in CmdIds : Ended(cmds[i])
\* A command arrives: the event loop is running and the model has a slot
\* for its handler.
Issue ==
    /\ mainpc = "running"
    /\ HasSlot
    /\ ops < MaxOps
    /\ ops' = ops + 1
    /\ mainpc' = mainpc
Slot == Min({i \in CmdIds : Ended(cmds[i])})
Cmd(kind, g, n, pc, exc) == [FreeCmd EXCEPT !.kind = kind, !.g = g, !.n = n, !.pc = pc, !.exc = exc]

\* The guard every handler starts with (lines 384-385):
\*   if str(ctx.guild_id) not in c.guilds.keys() and type(c.guilds[...]) != Tiax
\* For an id that is not a key the second operand subscripts c.guilds with
\* it; for a key the first operand is False.  "ok" is the guard passed.
Lookup(g) == IF g \notin RegKeys THEN "KeyError" ELSE "ok"
\* c.guilds[g].<attribute>: the object, or the exception the expression raises
Session(g) ==
    IF g \notin RegKeys THEN "KeyError"
    ELSE IF RegGet(g) = NonSession THEN "AttributeError"
    ELSE "ok"

\* A handler that ends in its first run without touching the state.
CmdEnds(kind, g, n, exc) ==
    /\ cmds' = [cmds EXCEPT ![Slot] = Cmd(kind, g, n, IF exc = "" THEN "done" ELSE "failed", exc)]
    /\ cmdf' = [cmdf EXCEPT ![Slot] = IdleFrame]
    /\ UNCHANGED <<savege, guilds, tiax, dicts, files, hbf, last_ranks, call>>

CmdApply(i, c, m0) ==
    \E m \in {Deliver(m0, tiax)} :
       \E CF \in {[cmdf EXCEPT ![i] = m.fr]} :
          /\ cmdf' = CF
          /\ cmds' = [cmds EXCEPT ![i] =
                        [c EXCEPT !.pc = CASE m.fr.st = "run" -> "cycle"
                                           [] m.fr.st = "ret" -> "done"
                                           [] OTHER -> "failed",
                                  !.exc = m.fr.exc]]
          /\ dicts' = Collect(m.d, tiax, hbf, CF)
          /\ files' = m.f
          /\ tiax' = m.T
          /\ last_ranks' = m.lr
          /\ call' = m.call
          /\ UNCHANGED <<savege, guilds, hbf>>

\* add_player (lines 423-431) up to its first await, and refresh (lines
\* 394-403) up to the await of line 401.
CmdCall(kind, g, n) ==
    /\ Issue
    /\ IF Lookup(g) # "ok" THEN CmdEnds(kind, g, n, Lookup(g))
       ELSE /\ cmds' = [cmds EXCEPT ![Slot] = Cmd(kind, g, n, "sent", "")]
            /\ cmdf' = [cmdf EXCEPT ![Slot] = IdleFrame]
            /\ UNCHANGED <<savege, guilds, tiax, dicts, files, hbf, last_ranks, call>>

CmdAddPlayer(g, n) == CmdCall("add_player", g, n)
CmdRefresh(g) == CmdCall("refresh", g, "")

\* add_player from line 429 and refresh from line 402: c.guilds[...] is
\* looked up again, the name is stored with {} and getSummoners is called.
CmdSent(i) ==
    LET c == cmds[i]
        t == RegGet(c.g)
        sd == tiax[t].summ
        D == IF c.kind = "add_player"
             THEN [dicts EXCEPT ![sd] = Put(dicts[sd], c.n, EmptyEntry(c.n))]
             ELSE dicts
    IN /\ c.pc = "sent"
       /\ IF Session(c.g) # "ok"
          THEN /\ cmds' = [cmds EXCEPT ![i].pc = "failed", ![i].exc = Session(c.g)]
               /\ UNCHANGED <<savege, guilds, tiax, dicts, files, hbf, cmdf, last_ranks, call>>
          ELSE /\ c.kind = "add_player" => PlayerFits(dicts[sd], c.n)
               /\ CmdApply(i, [c EXCEPT !.t = t], getSummoners(t, tiax, D, files))
       /\ UNCHANGED ctl

\* The getSummoners call of a handler is resumed.
CmdStep(i) ==
    /\ cmds[i].pc = "cycle"
    /\ \E o \in Inputs(cmdf[i]) : CmdApply(i, cmds[i], Resume(cmdf[i], o, tiax, dicts, files))
    /\ UNCHANGED ctl

\* batch_add_players (lines 462-508) with a list of names: each name that is
\* not a key yet is stored with {}, then getSummoners is called.
RECURSIVE PutAll(_, _)
PutAll(d, ns) ==
    IF ns = <<>> THEN d
    ELSE PutAll(IF Head(ns) \notin Keys(d) THEN Put(d, Head(ns), EmptyEntry(Head(ns))) ELSE d,
                Tail(ns))
NameLists == {<<n>> : n \in PlayerNames} \cup {<<n, m>> : n, m \in PlayerNames}
Range(q) == {q[i] : i \in 1..Len(q)}
CmdBatchAdd(g, ns) ==
    /\ Issue
    /\ IF Session(g) # "ok" THEN CmdEnds("batch_add_players", g, "", Session(g))
       ELSE LET t == RegGet(g)
                sd == tiax[t].summ
                c == [Cmd("batch_add_players", g, "", "cycle", "") EXCEPT !.t = t]
            IN /\ Cardinality((Keys(dicts[sd]) \cup Range(ns)) \ {ConfigKey}) < MaxSlots
               /\ CmdApply(Slot, c,
                           getSummoners(t, tiax, [dicts EXCEPT ![sd] = PutAll(dicts[sd], ns)], files))

\* remove_player (lines 606-624): no await between the lookup and the pop,
\* and nothing is written to the file.
CmdRemovePlayer(g, n) ==
    /\ Issue
    /\ IF Session(g) # "ok" THEN CmdEnds("remove_player", g, n, Session(g))
       ELSE LET sd == tiax[RegGet(g)].summ
            IN /\ cmds' = [cmds EXCEPT ![Slot] = Cmd("remove_player", g, n, "done", "")]
               /\ cmdf' = [cmdf EXCEPT ![Slot] = IdleFrame]
               /\ dicts' = IF n \in Keys(dicts[sd])
                           THEN [dicts EXCEPT ![sd] = Pop(dicts[sd], n)]
                           ELSE dicts
               /\ UNCHANGED <<savege, guilds, tiax, files, hbf, last_ranks, call>>

\* drop_leaderboard (lines 632-638): summ_data becomes a new dict, which
\* save_to_file writes out.
CmdDropLeaderboard(g) ==
    /\ Issue
    /\ IF Session(g) # "ok" THEN CmdEnds("drop_leaderboard", g, "", Session(g))
       ELSE LET i == RegGet(g)
                CF == [cmdf EXCEPT ![Slot] = IdleFrame]
            IN /\ FreeDicts(tiax, hbf, CF) # {}
               /\ LET fresh == Min(FreeDicts(tiax, hbf, CF))
                      T == [tiax EXCEPT ![i].summ = fresh]
                      s == save_to_file(T[i], [dicts EXCEPT ![fresh] = <<>>], files)
                  IN /\ tiax' = T
                     /\ dicts' = Collect(s.d, T, hbf, CF)
                     /\ files' = s.f
               /\ cmds' = [cmds EXCEPT ![Slot] = Cmd("drop_leaderboard", g, "", "done", "")]
               /\ cmdf' = CF
               /\ UNCHANGED <<savege, guilds, hbf, last_ranks, call>>

\* updates_interval = 900 if updates_interval < 900 else updates_interval
\* (line 568)
Clamp(iv) == IF iv < MinInterval THEN MinInterval ELSE iv
RawIntervals == Intervals \cup {MinInterval - 1}

\* send_updates (lines 561-591) up to the await inside stop(), or to its end
\* when the heartbeat is not started.  ch is the updates_channel option
\* (NoChannel when it is not given) and here the channel of the command.
CmdSendUpdates(g, su, ch, here, raw) ==
    /\ Issue
    /\ LET c0 == Cmd("send_updates", g, "", "done", "")
           CF == [cmdf EXCEPT ![Slot] = IdleFrame]
       IN IF Session(g) # "ok" THEN CmdEnds("send_updates", g, "", Session(g))
          ELSE IF ~su /\ ch = NoChannel
          THEN \* lines 572-574: only a report
               /\ cmds' = [cmds EXCEPT ![Slot] = c0]
               /\ cmdf' = CF
               /\ UNCHANGED <<savege, guilds, tiax, dicts, files, hbf, last_ranks, call>>
          ELSE LET i == RegGet(g)
                   \* lines 585-586
                   t1 == [tiax[i] EXCEPT !.send_updates = su,
                                         !.updates_channel = IF ch = NoChannel THEN here ELSE ch]
               IN IF t1.is_started
                  THEN \* change_interval (line 154) is suspended in stop()
                       LET HF == [hbf EXCEPT ![i] = Cancelled(hbf[i])]
                       IN /\ tiax' = [tiax EXCEPT ![i] = stop(t1)]
                          /\ hbf' = HF
                          /\ cmds' = [cmds EXCEPT ![Slot] = [c0 EXCEPT !.pc = "join", !.t = i, !.iv = Clamp(raw)]]
                          /\ cmdf' = CF
                          /\ dicts' = Collect(dicts, tiax, HF, CF)
                          /\ UNCHANGED <<savege, guilds, files, last_ranks, call>>
                  ELSE \* stop() does nothing: lines 155-156, then line 590
                       LET T == [tiax EXCEPT ![i] = start([t1 EXCEPT !.time = Clamp(raw)])]
                           s == save_to_file(T[i], dicts, files)
                       IN /\ tiax' = T
                          /\ dicts' = s.d
                          /\ files' = s.f
                          /\ cmds' = [cmds EXCEPT ![Slot] = c0]
                          /\ cmdf' = CF
                          /\ UNCHANGED <<savege, guilds, hbf, last_ranks, call>>

\* The cancelled task has ended and stop() returns: change_interval goes on
\* with lines 155-156, and send_updates with c.guilds[...].save_to_file()
\* (line 590).
CmdJoin(i) ==
    LET c == cmds[i]
        T == [tiax EXCEPT ![c.t] = start([tiax[c.t] EXCEPT !.time = c.iv])]
    IN /\ c.pc = "join"
       /\ tiax' = T
       /\ IF Session(c.g) # "ok"
          THEN /\ cmds' = [cmds EXCEPT ![i] = Cmd(c.kind, c.g, "", "failed", Session(c.g))]
               /\ UNCHANGED <<dicts, files>>
          ELSE LET s == save_to_file(T[RegGet(c.g)], dicts, files)
               IN /\ cmds' = [cmds EXCEPT ![i] = Cmd(c.kind, c.g, "", "done", "")]
                  /\ dicts' = s.d
                  /\ files' = s.f
       /\ UNCHANGED <<ctl, savege, guilds, hbf, cmdf, last_ranks, call>>

\* show_unranked_players (lines 523-534): without the option, or with False,
\* the handler only reports; with True it sets the field and saves.
CmdShowUnranked(g, v) ==
    /\ Issue
    /\ IF Session(g) # "ok" THEN CmdEnds("show_unranked_players", g, "", Session(g))
       ELSE IF ~v THEN CmdEnds("show_unranked_players", g, "", "")
       ELSE LET i == RegGet(g)
                T == [tiax EXCEPT ![i].show_unranked_players = v]
                s == save_to_file(T[i], dicts, files)
            IN /\ tiax' = T
               /\ dicts' = s.d
               /\ files' = s.f
               /\ cmds' = [cmds EXCEPT ![Slot] = Cmd("show_unranked_players", g, "", "done", "")]
               /\ cmdf' = [cmdf EXCEPT ![Slot] = IdleFrame]
               /\ UNCHANGED <<savege, guilds, hbf, last_ranks, call>>

\* leaderboard (lines 381-390) and mode_selector (lines 406-408): the
\* session's generateLeaderboardEmbed is called and what it returns is sent.
CmdRender(kind, g, gamemodes, modcall) ==
    /\ Issue
    /\ IF Session(g) # "ok" THEN CmdEnds(kind, g, "", Session(g))
       ELSE \E r \in {Render(RegGet(g), tiax, dicts, gamemodes, modcall)} :
               /\ tiax' = r.T
               /\ last_ranks' = r.lr
               /\ call' = r.call
               /\ cmds' = [cmds EXCEPT ![Slot] =
                             Cmd(kind, g, "", IF r.exc = "" THEN "done" ELSE "failed", r.exc)]
               /\ cmdf' = [cmdf EXCEPT ![Slot] = IdleFrame]
               /\ UNCHANGED <<savege, guilds, dicts, files, hbf>>
CmdLeaderboard(g) == CmdRender("leaderboard", g, <<queue_types[1]>>, FALSE)
\* response is the list of the one option selected in mode_select (lines
\* 32-40).
CmdModeSelect(g, response) == CmdRender("mode_select", g, response, TRUE)

\* load (lines 676-682): c.load() constructs an object per saved id; the
\* event loop is running, so each new heartbeat is started at once.
CmdLoad ==
    /\ Issue
    /\ ConfigLoad(TRUE)
    /\ cmds' = [cmds EXCEPT ![Slot] = Cmd("load", "", "", "done", "")]
    /\ cmdf' = [cmdf EXCEPT ![Slot] = IdleFrame]
    /\ UNCHANGED <<savege, files, last_ranks, call>>

\* save (lines 660-667): every value of c.guilds is replaced by the
\* object's updates_channel, then Config.save (lines 288-290) writes the
\* keys.  With a value that is no Tiax the comprehension raises, and the
\* handler reports it.
CmdSave ==
    /\ Issue
    /\ IF \E i \in 1..Len(guilds) : guilds[i].v = NonSession
       THEN UNCHANGED <<guilds, savege>>
       ELSE /\ guilds' = [i \in 1..Len(guilds) |-> [g |-> guilds[i].g, v |-> NonSession]]
            /\ savege' = [kind |-> "ok", ids |-> RegList]
    /\ cmds' = [cmds EXCEPT ![Slot] = Cmd("save", "", "", "done", "")]
    /\ cmdf' = [cmdf EXCEPT ![Slot] = IdleFrame]
    /\ UNCHANGED <<tiax, dicts, files, hbf, last_ranks, call>>

(***************************************************************************)
(* Initial states: the process before line 301, with the files a previous  *)
(* run has left.                                                           *)
(***************************************************************************)
NoSavege == [kind |-> "missing", ids |-> <<>>]
Savege(ids) == [kind |-> "ok", ids |-> ids]
\* A file a previous run wrote for a roster of the given names.
SavedFile(names) ==
    [kind |-> "ok",
     slots |-> [i \in 1..Len(names) |->
                  [k |-> names[i], cfg |-> FALSE, data |-> 1, info |-> 2]] \o <<ConfigEntry>>,
     conf |-> DefaultConf, lacks |-> ""]

InitWith(sv, fs) ==
    /\ mainpc = "boot"
    /\ ops = 0
    /\ savege = sv
    /\ guilds = <<>>
    /\ tiax = <<>>
    /\ dicts = [i \in 0..MaxDict |-> <<>>]
    /\ files = fs
    /\ hbf = <<>>
    /\ cmds = [i \in CmdIds |-> FreeCmd]
    /\ cmdf = [i \in CmdIds |-> IdleFrame]
    /\ last_ranks = NoRanks
    /\ call = NoCall

Boot == ConfigInit \/ ModuleRebuild \/ BotStart

(***************************************************************************)
(* SpecRefresh: one guild whose commands are issued one at a time, with    *)
(* no heartbeat firing in between (an interval no run outlasts).           *)
(***************************************************************************)
Quiet == \A i \in CmdIds : Ended(cmds[i])

InitRefresh ==
    \E f \in {NoFile, SavedFile(<<"a">>)} :
        InitWith(Savege(<<"g1">>), [g \in Guilds |-> IF g = "g1" THEN f ELSE NoFile])

NextRefresh ==
    \/ Boot
    \/ Quiet /\ \E n \in PlayerNames : CmdAddPlayer("g1", n)
    \/ Quiet /\ CmdRefresh("g1")
    \/ Quiet /\ \E n \in PlayerNames : CmdRemovePlayer("g1", n)
    \/ \E i \in CmdIds : CmdSent(i)
    \/ \E i \in CmdIds : CmdStep(i)

SpecRefresh == InitRefresh /\ [][NextRefresh]_vars

\* The roster a finished call of getSummoners leaves: the dict its object's
\* summ_data refers to.
RosterOf(fr) == dicts[tiax[fr.self].summ]
Returned == {cmdf[i] : i \in {j \in CmdIds : cmdf[j].st = "ret"}}
FailedResolution(fr) == {h.n : h \in {x \in fr.hist : x.data = FetchFalse}}

\* C1: when a refresh cycle completes, the returned failure list holds
\* exactly the names whose resolution failed in the cycle, each of them is
\* absent from the roster, every other name the cycle visited is in the
\* roster with the profile and the rankings the cycle fetched, and the
\* returned flag is true exactly when the list is empty.
C1_RefreshOutcome ==
    \A fr \in Returned :
        /\ Range(fr.errs) = FailedResolution(fr)
        /\ \A n \in Range(fr.errs) : n \notin Keys(RosterOf(fr))
        /\ \A h \in fr.hist :
              h.data # FetchFalse =>
                  /\ h.n \in Keys(RosterOf(fr))
                  /\ Get(RosterOf(fr), h.n).data = h.data
                  /\ h.info # FetchFalse => Get(RosterOf(fr), h.n).info = h.info
        /\ fr.flag <=> fr.errs = <<>>

\* C2: a name whose resolution succeeded and whose ranking fetch failed is
\* in the returned failure list, is still in the roster, and keeps the
\* rankings that were cached before the cycle.
C2_RankingFailureKeepsSnapshot ==
    \A fr \in Returned :
        \A h \in fr.hist :
            (h.data # FetchFalse /\ h.info = FetchFalse) =>
                /\ h.n \in Range(fr.errs)
                /\ h.n \in Keys(RosterOf(fr))
                /\ Get(RosterOf(fr), h.n).info = h.old

\* C3: no refresh cycle ends with an error because a remote call of one
\* identity failed: every cycle of a handler runs to its return.
C3_CycleNeverRaises ==
    \A i \in CmdIds : cmdf[i].st # "exc"

(***************************************************************************)
(* SpecHeartbeat: one saved guild that has no state file yet; its          *)
(* heartbeats fire and send_updates commands change the interval while     *)
(* they do.  SpecReschedule is the same with a roster saved in the file.   *)
(***************************************************************************)
InitHeartbeat == InitWith(Savege(<<"g1">>), [g \in Guilds |-> NoFile])

InitReschedule ==
    InitWith(Savege(<<"g1">>),
             [g \in Guilds |-> IF g = "g1" THEN SavedFile(<<"a">>) ELSE NoFile])

NextHeartbeat ==
    \/ Boot
    \/ \E i \in 1..MaxTiax : HbFire(i)
    \/ \E i \in 1..MaxTiax : HbStep(i)
    \/ ops < MaxChanges /\ \E raw \in {MinInterval - 1, DefaultInterval} :
          CmdSendUpdates("g1", TRUE, NoChannel, "c1", raw)
    \/ \E i \in CmdIds : CmdJoin(i)

SpecHeartbeat == InitHeartbeat /\ [][NextHeartbeat]_vars

SpecReschedule == InitReschedule /\ [][NextHeartbeat]_vars

\* The timer of a sleeping heartbeat runs out, and a remote call or a sleep
\* a refresh cycle is suspended at comes to an end.
\* The objects of the one saved guild: the one Config.load constructs and
\* the one line 303 puts in its place.
BootTiax == {1, 2}

FairHeartbeat ==
    \A i \in BootTiax : WF_vars(HbFire(i)) /\ WF_vars(HbStep(i))

FairSpecHeartbeat == SpecHeartbeat /\ FairHeartbeat

\* C4: a refresh cycle the heartbeat has begun is not interrupted when the
\* interval is changed (send_updates calls change_interval): no call of
\* getSummoners made by a heartbeat ends cancelled.
C4_CycleSurvivesIntervalChange ==
    \A i \in TiaxIds : hbf[i].st # "cancelled"

Raised(i) == i \in TiaxIds /\ hbf[i].st = "exc"
FiredAgain(i) == i \in TiaxIds /\ hbf[i].st \in {"run", "ret"}
Stopped(i) == i \in TiaxIds /\ ~tiax[i].is_started

\* C5: a failing action never halts a running heartbeat: a started
\* heartbeat always has a task that sleeps or runs the action, and after a
\* firing in which the action raised the heartbeat fires the action again
\* unless it is stopped.
C5_FailureDoesNotHaltHeartbeat ==
    /\ [](\A i \in TiaxIds : tiax[i].is_started => tiax[i].task \in {"sleep", "func"})
    /\ \A i \in BootTiax : Raised(i) ~> (FiredAgain(i) \/ Stopped(i))

C5_RaisedAndSleeping ==
    \E i \in TiaxIds : Raised(i) /\ tiax[i].is_started /\ tiax[i].task = "sleep"

\* C6: once stop() has cleared is_started the heartbeat has no task left
\* that could fire the action, until start() is called again; a heartbeat
\* stopped before its first firing has not fired.
C6_StoppedNeverFires ==
    \A i \in TiaxIds : ~tiax[i].is_started =>
        /\ tiax[i].task \notin {"sleep", "func"}
        /\ ~ENABLED HbFire(i)
        /\ ~ENABLED HbStep(i)

C6_StoppedBeforeFirstFiring ==
    \E i \in TiaxIds : /\ ~tiax[i].is_started
                       /\ tiax[i].task = "cancelled"
                       /\ hbf[i].st = "idle"

(***************************************************************************)
(* SpecTenants: two saved guilds, commands issued one at a time.           *)
(***************************************************************************)
InitTenants ==
    \E f \in {NoFile, SavedFile(<<"a">>)} :
        InitWith(Savege(<<"g1", "g2">>), [g \in Guilds |-> IF g = "g1" THEN f ELSE NoFile])

NextTenants ==
    \/ Boot
    \/ Quiet /\ \E g \in Guilds, n \in PlayerNames : CmdAddPlayer(g, n)
    \/ Quiet /\ \E g \in Guilds, n \in PlayerNames : CmdRemovePlayer(g, n)
    \/ \E i \in CmdIds : CmdSent(i)
    \/ \E i \in CmdIds : CmdStep(i)

SpecTenants == InitTenants /\ [][NextTenants]_vars

\* A step of a command of guild g.
ActsOn(g) ==
    \/ \E n \in PlayerNames : CmdAddPlayer(g, n) \/ CmdRemovePlayer(g, n)
    \/ \E i \in CmdIds : cmds[i].g = g /\ (CmdSent(i) \/ CmdStep(i))

\* What guild g's session holds: the roster with its cached data and
\* rankings, the interval and the notification preference.
TenantState(g) ==
    LET t == tiax[RegGet(g)]
        d == dicts[t.summ]
    IN [roster |-> {d[i] : i \in Live(d)}, time |-> t.time,
        send_updates |-> t.send_updates, updates_channel |-> t.updates_channel]

\* C7: a step of a command of one guild leaves the roster, the cached
\* rankings, the interval and the notification preference of every other
\* guild as they were.
C7_TenantIsolation ==
    [][\A g \in Guilds : ActsOn(g) =>
          \A h \in (RegKeys \ {g}) : TenantState(h)' = TenantState(h)]_vars

(***************************************************************************)
(* SpecConcurrent: one guild with a saved roster whose commands arrive     *)
(* while earlier ones are suspended.                                       *)
(***************************************************************************)
InitConcurrent ==
    InitWith(Savege(<<"g1">>),
             [g \in Guilds |-> IF g = "g1" THEN SavedFile(<<"a">>) ELSE NoFile])

NextConcurrent ==
    \/ Boot
    \/ ops < MaxBurst /\ \E n \in PlayerNames : CmdAddPlayer("g1", n)
    \/ ops < MaxBurst /\ CmdRefresh("g1")
    \/ ops < MaxBurst /\ \E n \in PlayerNames : CmdRemovePlayer("g1", n)
    \/ ops < MaxBurst /\ CmdDropLeaderboard("g1")
    \/ \E i \in CmdIds : CmdSent(i)
    \/ \E i \in CmdIds : CmdStep(i)

SpecConcurrent == InitConcurrent /\ [][NextConcurrent]_vars

\* C8: commands of one guild have the effect of some sequential order: a
\* refresh cycle begins only when no other cycle of the guild is in
\* progress, and no cycle ends with the RuntimeError of a roster changed
\* under its loop, which no sequential order produces.
C8_SequentialEffect ==
    /\ \A i, j \in CmdIds :
          i # j /\ cmdf[i].st = "run" /\ cmdf[j].st = "run" => cmds[i].g # cmds[j].g
    /\ \A i \in CmdIds : cmdf[i].exc # "RuntimeError"

(***************************************************************************)
(* SpecRegistry: the registry of sessions from boot on, with commands of   *)
(* a saved guild and of a guild the registry has never seen.               *)
(***************************************************************************)
InitRegistry ==
    \E sv \in {NoSavege, Savege(<<"g1">>)}, f \in {NoFile, SavedFile(<<"a">>)} :
        InitWith(sv, [g \in Guilds |-> IF g = "g1" THEN f ELSE NoFile])

NextRegistry ==
    \/ Boot
    \/ Quiet /\ \E g \in Guilds, n \in PlayerNames : CmdAddPlayer(g, n)
    \/ Quiet /\ \E g \in Guilds : CmdRefresh(g)
    \/ Quiet /\ CmdLoad
    \/ Quiet /\ CmdSave
    \/ \E i \in CmdIds : CmdSent(i)
    \/ \E i \in CmdIds : CmdStep(i)

SpecRegistry == InitRegistry /\ [][NextRegistry]_vars

\* C9: a guild has at most one live session: no two objects of one guild
\* have a started heartbeat at the same time.
C9_OneLiveSessionPerTenant ==
    \A i, j \in TiaxIds :
        tiax[i].guild = tiax[j].guild /\ tiax[i].is_started /\ tiax[j].is_started => i = j

\* C10: a command of a guild the registry does not hold gets a session
\* constructed for it: no handler ends with the KeyError of the lookup.
C10_SessionConstructedOnDemand ==
    \A i \in CmdIds :
        cmds[i].pc \in {"done", "failed"} /\ cmds[i].kind \in {"add_player", "refresh"} =>
            /\ cmds[i].g \in RegKeys
            /\ cmds[i].exc # "KeyError"

\* Whether the registry maps guild g to a session (a Tiax object of g).
HasSession(g) ==
    /\ g \in RegKeys
    /\ RegGet(g) # NonSession
    /\ tiax[RegGet(g)].guild = g

\* C11: no eviction: a guild the registry maps to a session is mapped to a
\* session after every step, the steps of save and load included.
C11_NoEviction ==
    [][\A g \in Guilds : HasSession(g) => HasSession(g)']_vars

(***************************************************************************)
(* SpecPersist: one saved guild whose configuration commands are issued    *)
(* one at a time, and the registry reloaded from the files.                *)
(***************************************************************************)
InitPersist ==
    \E f \in {NoFile, SavedFile(<<"a">>)} :
        InitWith(Savege(<<"g1">>), [g \in Guilds |-> IF g = "g1" THEN f ELSE NoFile])

NextPersist ==
    \/ Boot
    \/ Quiet /\ \E su \in BOOLEAN, ch \in Channels \cup {NoChannel}, raw \in RawIntervals :
                   CmdSendUpdates("g1", su, ch, "c1", raw)
    \/ \E i \in CmdIds : CmdJoin(i)
    \/ Quiet /\ \E v \in BOOLEAN : CmdShowUnranked("g1", v)
    \/ Quiet /\ \E n \in PlayerNames : CmdAddPlayer("g1", n)
    \/ \E i \in CmdIds : CmdSent(i)
    \/ \E i \in CmdIds : CmdStep(i)
    \/ Quiet /\ CmdLoad

SpecPersist == InitPersist /\ [][NextPersist]_vars

\* Session t saved with save_to_file and the file loaded by a new Tiax of
\* the guild: the new object and the names of its roster.
SavedThenLoaded(t) ==
    LET f == save_to_file(t, dicts, files).f[t.guild]
    IN [t |-> NewTiax(t.guild, f, t.summ, FALSE), roster |-> Keys(LoadedSlots(f))]

\* C12: saving the state of a session and loading it into a new one gives
\* the same roster names and the same configuration fields, the interval
\* the heartbeat is using included.
C12_PersistenceRoundTrip ==
    \A g \in Guilds : HasSession(g) /\ Quiet =>
        LET t == tiax[RegGet(g)]
            r == SavedThenLoaded(t)
        IN /\ r.roster = Keys(dicts[t.summ]) \ {ConfigKey}
           /\ r.t.show_unranked_players = t.show_unranked_players
           /\ r.t.send_updates = t.send_updates
           /\ r.t.updates_channel = t.updates_channel
           /\ r.t.time = t.time

(***************************************************************************)
(* SpecDelta: lines 248-274 of generateLeaderboardEmbed on their own.  The *)
(* stored list of the default queue and the rows sortByTier returned are   *)
(* drawn from the lists of up to MaxRows display names; the program's      *)
(* objects stay as they are before the module's top-level code runs.       *)
(***************************************************************************)
RECURSIVE Lists(_, _)
\* The lists over S of length n or less.
Lists(S, n) ==
    IF n = 0 THEN {<<>>}
    ELSE LET shorter == Lists(S, n - 1)
         IN shorter \cup {Append(l, x) : l \in shorter, x \in S}
NameRows == Lists(Range(DisplayNames), MaxRows)

\* The state before line 301 with a call that is still to be made.
InitCall(fn, args) ==
    /\ mainpc = "boot"
    /\ ops = 0
    /\ savege = NoSavege
    /\ guilds = <<>>
    /\ tiax = <<>>
    /\ dicts = [i \in 0..MaxDict |-> <<>>]
    /\ files = [g \in Guilds |-> NoFile]
    /\ hbf = <<>>
    /\ cmds = [i \in CmdIds |-> FreeCmd]
    /\ cmdf = [i \in CmdIds |-> IdleFrame]
    /\ last_ranks = NoRanks
    /\ call = [fn |-> fn, args |-> args, exc |-> "pending", res |-> <<>>]
Pending(fn) == call.fn = fn /\ call.exc = "pending"
Called(fn) == call.fn = fn /\ call.exc # "pending"
Program == <<mainpc, ops, savege, guilds, tiax, dicts, files, hbf, cmds, cmdf, last_ranks>>

\* A row of good_data for the default queue, and the table stored for a
\* list of names by the render before.
RowOf(name) == [name |-> name, queue |-> queue_types[1], points |-> 0, text |-> UnrankedText]
GoodOf(names) == [exc |-> "", rows |-> [n \in 1..Len(names) |-> RowOf(names[n])]]
StoredOf(names) ==
    [NoRanks EXCEPT ![queue_types[1]] =
        [has |-> TRUE, rows |-> to_table(GoodOf(names).rows, queue_types[1])]]

InitDelta ==
    \E prev \in NameRows, new \in NameRows, modcall \in BOOLEAN :
        InitCall("Embed", [prev |-> prev, new |-> new, modcall |-> modcall])

CallEmbed ==
    /\ Pending("Embed")
    /\ \E r \in {Embed(GoodOf(call.args.new), StoredOf(call.args.prev),
                       <<queue_types[1]>>, call.args.modcall)} :
          call' = [call EXCEPT !.exc = r.exc,
                               !.res = [embed |-> r.embed, last |-> r.last]]
    /\ UNCHANGED Program

SpecDelta == InitDelta /\ [][CallEmbed]_vars

\* Whether label lab is what a row at position newPos (from 1) shows whose
\* name stood at position prevPos of the stored list.
Annotated(lab, newPos, prevPos) ==
    IF newPos < prevPos THEN lab.arrow = "up" /\ lab.by = prevPos - newPos
    ELSE IF newPos > prevPos THEN lab.arrow = "down" /\ lab.by = newPos - prevPos
    ELSE lab.arrow = ""

\* C13: rank delta: in a render with delta annotation, every new row whose
\* name occurs in the stored list is annotated up or down by the distance
\* to a position the name had there (no indicator for the same position),
\* and a row whose name does not occur there has no indicator.
C13_RankDelta ==
    Called("Embed") /\ ~call.args.modcall =>
        LET prev == call.args.prev
            new == call.args.new
            ranking == call.res.embed.ranking
        IN \A newPos \in 1..Len(new) :
              IF new[newPos] \in Range(prev)
              THEN \E prevPos \in 1..Len(prev) :
                      /\ prev[prevPos] = new[newPos]
                      /\ Annotated(ranking[newPos], newPos, prevPos)
              ELSE ranking[newPos].arrow = ""

\* The same for lists in which no display name occurs twice.
Distinct(l) == \A i, j \in 1..Len(l) : l[i] = l[j] => i = j
C13_RankDeltaDistinctNames ==
    (Called("Embed") /\ ~call.args.modcall
        /\ Distinct(call.args.prev) /\ Distinct(call.args.new)) =>
        \A newPos \in 1..Len(call.args.new) :
            IF call.args.new[newPos] \in Range(call.args.prev)
            THEN \E prevPos \in 1..Len(call.args.prev) :
                    /\ call.args.prev[prevPos] = call.args.new[newPos]
                    /\ Annotated(call.res.embed.ranking[newPos], newPos, prevPos)
            ELSE call.res.embed.ranking[newPos].arrow = ""
\* The stored list A, B, C and the new list B, A, C: B up 1, A down 1, C plain.
C13_SwappedFirstTwo ==
    /\ Called("Embed") /\ ~call.args.modcall
    /\ call.args.prev = <<"A", "B", "C">> /\ call.args.new = <<"B", "A", "C">>
    /\ call.res.embed.ranking[1].arrow = "up" /\ call.res.embed.ranking[1].by = 1
    /\ call.res.embed.ranking[2].arrow = "down" /\ call.res.embed.ranking[2].by = 1
    /\ call.res.embed.ranking[3].arrow = ""

(***************************************************************************)
(* SpecRender: one saved guild, with or without a saved roster, whose      *)
(* leaderboard is rendered on demand between commands that add identities, *)
(* run refresh cycles and switch the unranked rows on.                     *)
(***************************************************************************)
InitRender ==
    \E f \in {NoFile, SavedFile(<<"a">>)} :
        InitWith(Savege(<<"g1">>), [g \in Guilds |-> IF g = "g1" THEN f ELSE NoFile])

NextRender ==
    \/ Boot
    \/ Quiet /\ CmdLeaderboard("g1")
    \/ Quiet /\ \E q \in Modes : CmdModeSelect("g1", <<q>>)
    \/ Quiet /\ \E n \in PlayerNames : CmdAddPlayer("g1", n)
    \/ Quiet /\ CmdRefresh("g1")
    \/ Quiet /\ CmdShowUnranked("g1", TRUE)
    \/ \E i \in CmdIds : CmdSent(i)
    \/ \E i \in CmdIds : CmdStep(i)

SpecRender == InitRender /\ [][NextRender]_vars

\* The step is a handler of the given kind running to its end.
Handled(kind) ==
    /\ ops' = ops + 1
    /\ cmds'[Slot].kind = kind
    /\ cmds'[Slot].pc = "done"

\* C14: a manual mode-switch re-render shows no delta annotation and leaves
\* the stored last ranks of every queue type as they are, in the class
\* attribute and in every object.
C14_ModeSwitchKeepsLastRanks ==
    [][Handled("mode_select") =>
          /\ \A n \in 1..Len(call'.res.ranking) : call'.res.ranking[n].arrow = ""
          /\ last_ranks' = last_ranks
          /\ \A i \in TiaxIds : tiax'[i].last_ranks = tiax[i].last_ranks]_vars

(***************************************************************************)
(* SpecScore: the score of lines 326-328 on its own, for two entries with  *)
(* a tier and a rank of the fixed lists.                                   *)
(***************************************************************************)
\* The weight of one tier and of one rank in the score (lines 326, 327).
TierStep == 100000
RankStep == 10000
PointSamples == {0, 1, RankStep - 1, RankStep, MaxPoints - 1, MaxPoints}
Recognised ==
    {Entry(queue_types[1], tier[t], rank[r], lp) :
        t \in 1..Len(tier), r \in 1..Len(rank), lp \in PointSamples}

InitScore == \E a \in Recognised, b \in Recognised : InitCall("points", <<a, b>>)

CallPoints ==
    /\ Pending("points")
    /\ call' = [call EXCEPT !.exc = "",
                            !.res = <<points(call.args[1]), points(call.args[2])>>]
    /\ UNCHANGED Program

SpecScore == InitScore /\ [][CallPoints]_vars

\* Entry a is above entry b: a higher tier, or the same tier and a higher
\* rank, or the same tier and rank and more points.
Outranks(a, b) ==
    \/ Index(tier, a.tier) > Index(tier, b.tier)
    \/ /\ a.tier = b.tier
       /\ Index(rank, a.rank) > Index(rank, b.rank)
    \/ /\ a.tier = b.tier
       /\ a.rank = b.rank
       /\ a.leaguePoints > b.leaguePoints

\* C15 as stated: whatever the points are, the entry that is above the
\* other has the strictly greater score.
C15_ScoreOrdering ==
    Called("points") =>
        (Outranks(call.args[1], call.args[2]) => call.res[1] > call.res[2])

\* C15 for points below the weight of one rank: the entry that is above the
\* other has the strictly greater score.
C15_ScoreOrderingBelowRankStep ==
    (/\ Called("points")
     /\ call.args[1].leaguePoints < RankStep
     /\ call.args[2].leaguePoints < RankStep) =>
        (Outranks(call.args[1], call.args[2]) => call.res[1] > call.res[2])

\* A higher tier against the highest rank and the most points below the
\* weight of one rank.
C15_HigherTierBeatsRankAndPoints ==
    /\ Called("points")
    /\ call.args[1] = Entry(queue_types[1], "GOLD", "IV", 0)
    /\ call.args[2] = Entry(queue_types[1], "SILVER", "I", RankStep - 1)
    /\ call.res[1] > call.res[2]

(***************************************************************************)
(* SpecAggregate: sortByTier (lines 306-358) on its own, called twice on   *)
(* a roster of up to MaxRoster players.  A player has a "data" value with  *)
(* a display name or none, and as "info" value no key, False, or one of    *)
(* the lists of Rankings (one of them with a tier that is not in the       *)
(* list of line 309).                                                      *)
(***************************************************************************)
RosterKeys == <<"a", "b", "c", "d", "e">>
DataValues == {[has |-> FALSE, name |-> ""]} \cup {[has |-> TRUE, name |-> n] : n \in {"A", "B"}}
InfoValues ==
    {[has |-> FALSE, list |-> TRUE, l |-> <<>>], [has |-> TRUE, list |-> FALSE, l |-> <<>>]}
        \cup {[has |-> TRUE, list |-> TRUE, l |-> l] : l \in Range(Rankings)}
Rosters ==
    {[n \in 1..Len(ps) |-> [k |-> RosterKeys[n], data |-> ps[n].data, info |-> ps[n].info]] :
        ps \in Lists([data : DataValues, info : InfoValues], MaxRoster)}

InitAggregate ==
    \E players \in Rosters, show_unrankeds \in BOOLEAN :
        InitCall("sortByTier", [players |-> players, show_unrankeds |-> show_unrankeds])

CallSortByTier ==
    /\ Pending("sortByTier")
    /\ \E r \in {sortByTier(call.args.players, call.args.show_unrankeds)} :
          call' = [call EXCEPT
                     !.exc = r.exc,
                     !.res = [rows |-> r.rows,
                              generated |-> playings(call.args.players,
                                                     call.args.show_unrankeds, <<>>).rows]]
    /\ UNCHANGED Program

\* The second call, on the roster the first call has left.
CallSortByTierAgain ==
    /\ Called("sortByTier")
    /\ \E r \in {sortByTier(call.args.players, call.args.show_unrankeds)} :
          call' = [fn |-> "sortByTier twice", args |-> call.args, exc |-> r.exc,
                   res |-> [first |-> call.res.rows, first_exc |-> call.exc, rows |-> r.rows]]
    /\ UNCHANGED Program

SpecAggregate == InitAggregate /\ [][CallSortByTier \/ CallSortByTierAgain]_vars

\* The rows of a sequence that have the score v, in their order.
WithScore(rows, v) == SelectSeq(rows, LAMBDA row : row.points = v)

WellFormed(players) ==
    \A n \in 1..Len(players) :
        players[n].data.has /\ players[n].info.has /\ players[n].info.list
IsRecognised(e) == In(tier, e.tier) /\ In(rank, e.rank)

\* C17: for a roster whose only defect is an entry with a tier or rank
\* outside the fixed lists, sortByTier returns; it returns a row for every
\* entry inside the lists and none for an entry outside them.
C17_UnrecognisedSkipped ==
    (Called("sortByTier") /\ WellFormed(call.args.players)) =>
        /\ call.exc = ""
        /\ \A n \in 1..Len(call.args.players) :
              LET p == call.args.players[n]
              IN \A m \in 1..Len(p.info.l) :
                    IsRecognised(p.info.l[m]) <=>
                        \E i \in 1..Len(call.res.rows) :
                            /\ call.res.rows[i].name = p.data.name
                            /\ call.res.rows[i].queue = p.info.l[m].queueType
                            /\ call.res.rows[i].text = RankText(p.info.l[m])

\* The identities of a roster: its players but the "config" key.
Identities(players) == {n \in 1..Len(players) : players[n].k # ConfigKey}
\* No identity has a ranking entry in any queue.
NoRankingEntry(players) ==
    \A n \in Identities(players) :
        ~players[n].info.has \/ ~players[n].info.list \/ players[n].info.l = <<>>
\* One row of score 0 and text "Unranked" per identity and queue.
OneUnrankedRowEach(players, rows) ==
    /\ \A i \in 1..Len(rows) : rows[i].points = 0 /\ rows[i].text = UnrankedText
    /\ \A q \in Modes : \A name \in Range(DisplayNames) \cup {""} :
          Cardinality({i \in 1..Len(rows) : rows[i].name = name /\ rows[i].queue = q})
              = Cardinality({n \in Identities(players) :
                                players[n].data.has /\ players[n].data.name = name})
    /\ \A n \in Identities(players) : players[n].data.has

\* C18: between commands, for a guild whose roster has no ranking entry,
\* sortByTier without unranked rows returns no row, and with them one
\* "Unranked" row of score 0 per identity and queue.
C18_UnrankedTenant ==
    \A g \in Guilds :
        (HasSession(g) /\ Quiet /\ NoRankingEntry(Players(dicts[tiax[RegGet(g)].summ]))) =>
            \A su \in BOOLEAN :
                \E r \in {sortByTier(Players(dicts[tiax[RegGet(g)].summ]), su)} :
                    /\ r.exc = ""
                    /\ ~su => r.rows = <<>>
                    /\ su => OneUnrankedRowEach(Players(dicts[tiax[RegGet(g)].summ]), r.rows)

(***************************************************************************)
(* SpecMalformed: one saved guild whose state file is there but cannot be  *)
(* loaded: it does not parse, or its "config" block lacks one of the keys  *)
(* lines 181-185 read.  The file holds a roster and values that differ     *)
(* from the defaults of lines 99-109.                                      *)
(***************************************************************************)
Unparsable == [NoFile EXCEPT !.kind = "unparsable"]
Lacking(k) ==
    [kind |-> "ok",
     slots |-> SavedFile(<<"a">>).slots,
     conf |-> [show_unrankeds |-> TRUE, last_ranks |-> StoredOf(<<"A">>),
               send_updates |-> TRUE, updates_channel |-> "c1",
               update_interval |-> MinInterval],
     lacks |-> k]
Malformed(f) == f.kind = "unparsable" \/ (f.kind = "ok" /\ f.lacks # "")

InitMalformed ==
    \E f \in {Unparsable} \cup {Lacking(k) : k \in Range(ConfKeys)} :
        InitWith(Savege(<<"g1">>), [g \in Guilds |-> IF g = "g1" THEN f ELSE NoFile])

NextMalformed ==
    \/ Boot
    \/ Quiet /\ \E n \in PlayerNames : CmdAddPlayer("g1", n)
    \/ Quiet /\ \E v \in BOOLEAN : CmdShowUnranked("g1", v)
    \/ Quiet /\ CmdLeaderboard("g1")
    \/ \E i \in CmdIds : CmdSent(i)
    \/ \E i \in CmdIds : CmdStep(i)
    \/ Quiet /\ CmdLoad

SpecMalformed == InitMalformed /\ [][NextMalformed]_vars

\* The fields of an object as lines 99-109 give them.
HasDefaults(t) ==
    /\ t.show_unranked_players = FALSE
    /\ t.send_updates = FALSE
    /\ t.updates_channel = NoChannel
    /\ t.update_interval = DefaultInterval
    /\ ~t.own_ranks

\* C19: an object constructed for a guild whose file is malformed has the
\* default value in every configuration field, no last ranks of its own
\* and an empty roster: nothing of it comes from the file.
C19_MalformedFileGivesDefaults ==
    [][\A i \in 1..Len(tiax') :
          (i > Len(tiax) /\ Malformed(files[tiax'[i].guild])) =>
              /\ HasDefaults(tiax'[i])
              /\ Keys(dicts'[tiax'[i].summ]) \ {ConfigKey} = {}]_vars

\* A call of getSummoners comes to be suspended in channel.send (line 215),
\* and a call that was suspended there moves on.
EntersSend(fr, fr2) == fr2.st = "run" /\ fr2.pc = "send" /\ ~(fr.st = "run" /\ fr.pc = "send")
LeavesSend(fr, fr2) == fr.st = "run" /\ fr.pc = "send" /\ fr2 # fr
\* Object s has notifications enabled and a destination, and the step has
\* written its roster and configuration to the guild's file.
EnabledAndPersisted(s) ==
    /\ tiax[s].send_updates
    /\ tiax[s].updates_channel # NoChannel
    /\ files'[tiax[s].guild] = FileOf(dicts'[tiax[s].summ], tiax[s])

\* C20: a refresh cycle starts a delivery only with notifications enabled
\* and a destination configured, in the step that has persisted the state,
\* and once it has delivered it ends without delivering again.
C20_DeliveryOnlyWhenEnabledAfterPersist ==
    [][/\ \A i \in CmdIds :
             /\ EntersSend(cmdf[i], cmdf'[i]) => EnabledAndPersisted(cmdf'[i].self)
             /\ LeavesSend(cmdf[i], cmdf'[i]) => cmdf'[i].st # "run"
       /\ \A i \in 1..Len(hbf) :
             /\ EntersSend(hbf[i], hbf'[i]) => EnabledAndPersisted(i)
             /\ LeavesSend(hbf[i], hbf'[i]) => hbf'[i].st # "run"]_vars

\* A cycle of a handler is suspended in the delivery of a leaderboard with
\* a row, after the guild's file was written.
C20_DeliveryInProgress ==
    \E i \in CmdIds :
        /\ cmdf[i].st = "run" /\ cmdf[i].pc = "send"
        /\ call.fn = "generateLeaderboardEmbed" /\ call.exc = ""
        /\ call.res.ranking # <<>>
        /\ files[tiax[cmdf[i].self].guild].kind = "ok"

(***************************************************************************)
(* The remote calls of a refresh cycle (lines 195-206), checked under      *)
(* SpecRefresh.                                                            *)
(***************************************************************************)
\* A step that takes a call from fr to fr2 issues _byName (line 197): fr2
\* is suspended there for a key the iterator has just given.
IssuesByName(fr, fr2) ==
    /\ fr2.st = "run" /\ fr2.pc = "byName"
    /\ ~(fr.st = "run" /\ fr.pc = "byName" /\ fr.pos = fr2.pos)
\* The same for _bySummoner (line 202).
IssuesBySummoner(fr, fr2) ==
    /\ fr2.st = "run" /\ fr2.pc = "bySummoner"
    /\ ~(fr.st = "run" /\ fr.pc = "bySummoner")
\* The profile ("data", with the service id) the roster d caches for name.
CachedId(d, name) == IF name \in Keys(d) THEN Get(d, name).data ELSE Absent

\* C21: a refresh cycle issues the resolve-by-name call only for a name
\* whose roster entry caches no profile (no service id).
C21_ResolveOnlyWithoutCachedId ==
    [][\A i \in CmdIds :
          IssuesByName(cmdf[i], cmdf'[i]) =>
              CachedId(dicts'[cmdf'[i].it], cmdf'[i].name) = Absent]_vars

\* The awaits of asyncio.sleep (lines 201 and 204).
Delays == {"sleep1", "sleep2"}
\* A call that has sent no remote call yet: not begun, or ended.
NotInCycle(fr) == fr.st # "run"

\* C22: within a cycle a remote call is issued only out of a delay (or as
\* the first call of the cycle): between two consecutive remote calls the
\* cycle sleeps, on every path.
C22_DelayBetweenRemoteCalls ==
    [][\A i \in CmdIds :
          (IssuesByName(cmdf[i], cmdf'[i]) \/ IssuesBySummoner(cmdf[i], cmdf'[i])) =>
              (NotInCycle(cmdf[i]) \/ cmdf[i].pc \in Delays)]_vars

\* C23: every key of the roster of every session is an identity name that
\* was added or loaded as a roster entry; persisting adds no key.  Under
\* SpecRefresh the names ever added or loaded are those of PlayerNames.
C23_RosterPurity ==
    \A i \in TiaxIds : Keys(dicts[tiax[i].summ]) \subseteq PlayerNames

(***************************************************************************)
(* SpecOverlap: the heartbeats of one guild fire while send_updates        *)
(* commands change the interval, and a second command may arrive while the *)
(* first is suspended in stop().                                           *)
(***************************************************************************)
NextOverlap ==
    \/ Boot
    \/ \E i \in 1..MaxTiax : HbFire(i)
    \/ \E i \in 1..MaxTiax : HbStep(i)
    \/ ops < MaxBurst /\ \E raw \in {MinInterval - 1, DefaultInterval} :
          CmdSendUpdates("g1", TRUE, NoChannel, "c1", raw)
    \/ \E i \in CmdIds : CmdJoin(i)

SpecOverlap == InitHeartbeat /\ [][NextOverlap]_vars

\* C24: a heartbeat has at most one firing loop (start() on a running
\* heartbeat creates none), and a firing begins only out of a completed
\* wait that was no shorter than the interval configured at that moment.
C24_FiringsNeverOverlapNorEarly ==
    /\ [](\A i \in TiaxIds : tiax[i].loops <= 1)
    /\ [][\A i \in 1..MaxTiax : HbFire(i) => tiax[i].armed >= tiax[i].time]_vars

====
